---- MODULE Spec2Model ----
(***************************************************************************)
(* Model of the reading tracker: the book / reading-session CRUD layer     *)
(* with its HTTP endpoints (src/app), and the frontend process manager     *)
(* (src/scripts/frontend_manager.py).                                      *)
(*                                                                         *)
(* Optional values (Python None / a value) are <<>> and <<v>>.             *)
(* Columns that no operation reads (title, author, isbn, rating, notes,    *)
(* date_added, created_at) are not represented.                            *)
(***************************************************************************)
EXTENDS Integers, Sequences, FiniteSets, TLC

\* ---------------------------------------------------------------- bounds
\* Spec follows one book in depth; SpecLibrary several books of default shape.
MaxBooks == 1
MaxSessions == 2
MaxPages == 2
MaxTime == 2
LibraryBooks == 2
LibrarySessions == 3
\* SpecDerived: sessions stored, and the instants (in seconds) of their
\* start_time and end_time.
DerivedSessions == 1
Minute == 60
Seconds == {0, 59, 60, 61, 5399, 5400, 5401}
\* SpecRace: create-session requests served at the same time, and the
\* sessions they may create.
MaxWorkers == 2
RaceSessions == 3
\* SpecSupervisor: the commands and the daemons they fork and stop (the
\* server child keeps running): daemons ever forked, terminals.
MaxDaemons == 2
MaxCmds == 2
\* SpecBreaker: one daemon and its monitoring loop, on a clock.
BreakerDaemons == 1
MaxClock == 70

\* ------------------------------------------- constants of the supervisor
MAX_RESTART_ATTEMPTS == 5
RESTART_WINDOW == 60
MIN_UPTIME == 3
\* wait_time of run_monitoring_loop, and the polls of stop_daemon
RestartSleep == 2
StopPolls == 10

\* ------------------------------------------------------------ the values
None == <<>>
Some(v) == <<v>>

BookStatus == {"want_to_read", "reading", "completed"}

Times == 1..MaxTime
OptTimes == {None} \cup {Some(t) : t \in Times}

\* BookCreate: total_pages > 0, current_page >= 0 (default 0), status
\* (default want_to_read), optional date_started and date_finished.
BookDefaults(total_pages) ==
  [total_pages |-> total_pages, current_page |-> 0, status |-> "want_to_read",
   date_started |-> None, date_finished |-> None]

BookCreate ==
  [total_pages : {MaxPages},
   current_page : {0, 1},
   status : BookStatus,
   date_started : {None, Some(MaxTime)},
   date_finished : {None, Some(MaxTime)}]

\* SessionCreate: start_time, pages_read >= 0.
SessionCreate == [start_time : Times, pages_read : 0..MaxPages]

\* SessionUpdate: a partial record, every field optional; a field that is
\* present may be null.
SessionUpdate ==
  { [f \in {} |-> None] }
  \cup { [f \in {"end_time"} |-> v] : v \in {None, Some(MaxTime)} }
  \cup { [f \in {"pages_read"} |-> v] : v \in {None, Some(0)} }
  \cup { [f \in {"end_time", "pages_read"} |->
            IF f = "end_time" THEN Some(MaxTime) ELSE v] : v \in {None, Some(0)} }

\* BookUpdate: likewise.
BookUpdate ==
  { [f \in {} |-> None] }
  \cup { [f \in {"current_page"} |-> Some(MaxPages)] }
  \cup { [f \in {"status"} |-> Some("want_to_read")] }
  \cup { [f \in {"date_started"} |-> v] : v \in {None, Some(1)} }
  \cup { [f \in {"date_started", "total_pages"} |->
            IF f = "date_started" THEN Some(1) ELSE None] }
  \cup { [f \in {"status", "current_page"} |->
            IF f = "status" THEN Some("reading") ELSE Some(1)] }

\* The inputs of SpecProgress: books created with the defaults.
ProgressBookCreate == { BookDefaults(n) : n \in 1..MaxPages }
ProgressSessionCreate == [start_time : {1}, pages_read : 0..MaxPages]

\* The inputs of SpecLibrary.
LibraryBookCreate == { BookDefaults(MaxPages) }
LibrarySessionCreate == [start_time : {1}, pages_read : {1}]
LibraryBookUpdate == { [f \in {"current_page"} |-> Some(0)] }
LibrarySessionUpdate == { [f \in {"pages_read"} |-> Some(0)] }

\* ------------------------------------------------------------- the state
VARIABLES
  books,            \* table books: id -> row
  sessions,         \* table reading_sessions: id -> row
  next_book_id,     \* autoincrement counter of books.id
  next_session_id,  \* autoincrement counter of reading_sessions.id
  exchange,         \* the last HTTP exchange: the request (endpoint, path
                    \* id, body) and the status code of the response
  requests          \* per worker thread: the create-session request it is
                    \* serving, with the Book its db session has loaded

apiVars == <<books, sessions, next_book_id, next_session_id, exchange,
             requests>>

VARIABLES
  pid_file,         \* logs/frontend.pid: None (absent) or Some(pid)
  daemon,           \* per daemon pid: position, pending signal, its server
                    \* child, restart_attempts, start_time of the monitor
  next_pid,         \* the pid the next forked daemon gets
  clock,            \* time.time(), in seconds
  cmd,              \* per terminal: the manager command that is running
  outcome           \* per terminal: what the last command printed/returned

supVars == <<pid_file, daemon, next_pid, clock, cmd, outcome>>

vars == <<books, sessions, next_book_id, next_session_id, exchange, requests,
          pid_file, daemon, next_pid, clock, cmd, outcome>>

\* The database as one value, as the crud functions receive it.
Db == [books |-> books, sessions |-> sessions,
       next_book_id |-> next_book_id, next_session_id |-> next_session_id]

Ret(db, ret) == [db |-> db, ret |-> ret, raised |-> FALSE]

\* db.commit() raises IntegrityError: the transaction is rolled back and the
\* exception leaves the crud function.
Raise(db) == [db |-> db, ret |-> None, raised |-> TRUE]

\* Columns declared nullable=False that an update schema lets be null.
NotNull == {"total_pages", "pages_read"}

\* The UPDATE assigns NULL to a NOT NULL column.
ViolatesNotNull(update_data) ==
  \E f \in DOMAIN update_data \cap NotNull : update_data[f] = None

\* ------------------------------------------------------------- crud/book
get_book(db, book_id) ==
  IF book_id \in DOMAIN db.books THEN Some(book_id) ELSE None

create_book(db, book) ==
  LET id == db.next_book_id
  IN Ret([db EXCEPT !.books = [b \in DOMAIN db.books \cup {id} |->
                                 IF b = id THEN book ELSE db.books[b]],
                    !.next_book_id = id + 1],
         Some(id))

\* setattr of every supplied field: the stored value of an optional column
\* is the supplied optional itself, that of a plain column its content.
ApplyBookUpdate(row, update_data) ==
  [f \in DOMAIN row |->
     IF f \in DOMAIN update_data
     THEN IF f \in {"date_started", "date_finished"}
          THEN update_data[f] ELSE update_data[f][1]
     ELSE row[f]]

update_book(db, book_id, book) ==
  IF book_id \in DOMAIN db.books
  THEN IF ViolatesNotNull(book)
       THEN Raise(db)
       ELSE Ret([db EXCEPT !.books[book_id] = ApplyBookUpdate(@, book)],
                Some(book_id))
  ELSE Ret(db, None)

\* Mutant: the relationship declared without the delete cascade.
CascadeSessions_none(s, book_id) == s

\* relationship(..., cascade="all, delete-orphan"): the sessions of a
\* deleted book are deleted with it.
CascadeSessions(s, book_id) ==
  [i \in {j \in DOMAIN s : s[j].book_id # book_id} |-> s[i]]

delete_book(db, book_id) ==
  IF book_id \in DOMAIN db.books
  THEN Ret([db EXCEPT !.books = [b \in DOMAIN db.books \ {book_id} |->
                                   db.books[b]],
                      !.sessions = CascadeSessions(db.sessions, book_id)],
           Some(book_id))
  ELSE Ret(db, None)

\* -------------------------------------------------- crud/reading_session
\* Mutant: the accumulation clamped to total_pages.
UpdateBookProgress_clamped(book, session_data) ==
  LET sum == book.current_page + session_data.pages_read
      b1 == [book EXCEPT
               !.current_page = IF sum > book.total_pages
                                THEN book.total_pages ELSE sum]
      b2 == IF b1.status = "want_to_read"
            THEN [b1 EXCEPT
                    !.status = "reading",
                    !.date_started =
                       IF @ = None THEN Some(session_data.start_time) ELSE @]
            ELSE b1
  IN IF b2.current_page >= b2.total_pages
     THEN [b2 EXCEPT
             !.status = "completed",
             !.date_finished =
                IF @ = None THEN Some(session_data.start_time) ELSE @]
     ELSE b2

\* Mutant: the completion check made before the want_to_read check.
UpdateBookProgress_swapped(book, session_data) ==
  LET b1 == [book EXCEPT
               !.current_page = @ + session_data.pages_read]
      b2 == IF b1.current_page >= b1.total_pages
            THEN [b1 EXCEPT
                    !.status = "completed",
                    !.date_finished =
                       IF @ = None THEN Some(session_data.start_time) ELSE @]
            ELSE b1
  IN IF book.status = "want_to_read"
     THEN [b2 EXCEPT
             !.status = "reading",
             !.date_started =
                IF @ = None THEN Some(session_data.start_time) ELSE @]
     ELSE b2

\* Mutant: the dates assigned without looking at the stored ones.
UpdateBookProgress_redated(book, session_data) ==
  LET b1 == [book EXCEPT
               !.current_page = @ + session_data.pages_read]
      b2 == IF b1.status = "want_to_read"
            THEN [b1 EXCEPT
                    !.status = "reading",
                    !.date_started = Some(session_data.start_time)]
            ELSE b1
  IN IF b2.current_page >= b2.total_pages
     THEN [b2 EXCEPT
             !.status = "completed",
             !.date_finished = Some(session_data.start_time)]
     ELSE b2

\* Mutant: a session without pages leaves a want_to_read book as it is.
UpdateBookProgress_idle(book, session_data) ==
  LET b1 == [book EXCEPT
               !.current_page = @ + session_data.pages_read]
      b2 == IF b1.status = "want_to_read" /\ session_data.pages_read > 0
            THEN [b1 EXCEPT
                    !.status = "reading",
                    !.date_started =
                       IF @ = None THEN Some(session_data.start_time) ELSE @]
            ELSE b1
  IN IF b2.current_page >= b2.total_pages /\ session_data.pages_read > 0
     THEN [b2 EXCEPT
             !.status = "completed",
             !.date_finished =
                IF @ = None THEN Some(session_data.start_time) ELSE @]
     ELSE b2

\* Mutant: completion only past total_pages.
UpdateBookProgress_strict(book, session_data) ==
  LET b1 == [book EXCEPT
               !.current_page = @ + session_data.pages_read]
      b2 == IF b1.status = "want_to_read"
            THEN [b1 EXCEPT
                    !.status = "reading",
                    !.date_started =
                       IF @ = None THEN Some(session_data.start_time) ELSE @]
            ELSE b1
  IN IF b2.current_page > b2.total_pages
     THEN [b2 EXCEPT
             !.status = "completed",
             !.date_finished =
                IF @ = None THEN Some(session_data.start_time) ELSE @]
     ELSE b2

\* The book-side effect of create_session, in the order of the code.
UpdateBookProgress(book, session_data) ==
  LET b1 == [book EXCEPT
               !.current_page = @ + session_data.pages_read]
      b2 == IF b1.status = "want_to_read"
            THEN [b1 EXCEPT
                    !.status = "reading",
                    !.date_started =
                       IF @ = None THEN Some(session_data.start_time) ELSE @]
            ELSE b1
      b3 == IF b2.current_page >= b2.total_pages
            THEN [b2 EXCEPT
                    !.status = "completed",
                    !.date_finished =
                       IF @ = None THEN Some(session_data.start_time) ELSE @]
            ELSE b2
  IN b3

create_session(db, book_id, session_data) ==
  IF book_id \notin DOMAIN db.books
  THEN Ret(db, None)
  ELSE LET id == db.next_session_id
           row == [book_id |-> book_id,
                   start_time |-> session_data.start_time,
                   end_time |-> None,
                   pages_read |-> session_data.pages_read]
       IN Ret([db EXCEPT
                 !.sessions = [s \in DOMAIN db.sessions \cup {id} |->
                                 IF s = id THEN row ELSE db.sessions[s]],
                 !.next_session_id = id + 1,
                 !.books[book_id] = UpdateBookProgress(@, session_data)],
              Some(id))

get_session(db, session_id) ==
  IF session_id \in DOMAIN db.sessions THEN Some(session_id) ELSE None

\* Mutant: end_time assigned without looking at the stored one.
end_session_overwrites(db, session_id, end_time, now) ==
  IF session_id \in DOMAIN db.sessions
  THEN Ret([db EXCEPT !.sessions[session_id].end_time =
                         IF end_time # None THEN end_time ELSE Some(now)],
           Some(session_id))
  ELSE Ret(db, None)

\* end_time is the optional query parameter, now the value of
\* datetime.now(); the row is returned whether or not it was changed.
end_session(db, session_id, end_time, now) ==
  IF session_id \in DOMAIN db.sessions
  THEN IF db.sessions[session_id].end_time = None
       THEN Ret([db EXCEPT !.sessions[session_id].end_time =
                              IF end_time # None THEN end_time ELSE Some(now)],
                Some(session_id))
       ELSE Ret(db, Some(session_id))
  ELSE Ret(db, None)

ApplySessionUpdate(row, update_data) ==
  [f \in DOMAIN row |->
     IF f \in DOMAIN update_data
     THEN IF f = "end_time" THEN update_data[f] ELSE update_data[f][1]
     ELSE row[f]]

\* Mutant: an edit of pages_read carried over to the book's current_page.
update_session_reconciles(db, session_id, session_update) ==
  IF session_id \in DOMAIN db.sessions
  THEN IF ViolatesNotNull(session_update)
       THEN Raise(db)
       ELSE LET old == db.sessions[session_id]
                new == ApplySessionUpdate(old, session_update)
            IN Ret([db EXCEPT
                      !.sessions[session_id] = new,
                      !.books[old.book_id].current_page =
                         @ - old.pages_read + new.pages_read],
                   Some(session_id))
  ELSE Ret(db, None)

update_session(db, session_id, session_update) ==
  IF session_id \in DOMAIN db.sessions
  THEN IF ViolatesNotNull(session_update)
       THEN Raise(db)
       ELSE Ret([db EXCEPT !.sessions[session_id] =
                              ApplySessionUpdate(@, session_update)],
                Some(session_id))
  ELSE Ret(db, None)

\* ------------------------------------------------ schemas/reading_session
\* int(x / 60) truncates towards zero.
Truncate(seconds) ==
  IF seconds >= 0 THEN seconds \div Minute ELSE -((-seconds) \div Minute)

\* Mutant: floor division in place of the truncation.
duration_minutes_floor(row) ==
  IF row.end_time # None
  THEN Some((row.end_time[1] - row.start_time) \div Minute)
  ELSE None

\* Session.duration_minutes; a datetime is always truthy.
duration_minutes(row) ==
  IF row.end_time # None
  THEN Some(Truncate(row.end_time[1] - row.start_time))
  ELSE None

\* Session.is_active
is_active(row) == row.end_time = None

\* The response model Session: the columns and the computed fields.
Session(row) ==
  [start_time |-> row.start_time, end_time |-> row.end_time,
   pages_read |-> row.pages_read, book_id |-> row.book_id,
   duration_minutes |-> duration_minutes(row), is_active |-> is_active(row)]

\* ----------------------------------------------------------- endpoints
Commit(db) ==
  /\ books' = db.books
  /\ sessions' = db.sessions
  /\ next_book_id' = db.next_book_id
  /\ next_session_id' = db.next_session_id

\* Mutant: the handler returns without testing for None.
Answer_unchecked(op, id, arg, r, ok) ==
  /\ Commit(r.db)
  /\ exchange' = [op |-> op, id |-> id, arg |-> arg, code |-> ok]
  /\ UNCHANGED requests
  /\ UNCHANGED supVars

\* 500 when the crud function raised, HTTPException(404) when it returned
\* None, else the status code of the route.
Answer(op, id, arg, r, ok) ==
  /\ Commit(r.db)
  /\ exchange' = [op |-> op, id |-> id, arg |-> arg,
                  code |-> IF r.raised THEN 500
                           ELSE IF r.ret = None THEN 404 ELSE ok]
  /\ UNCHANGED requests
  /\ UNCHANGED supVars

create_book_endpoint(book) ==
  LET r == create_book(Db, book)
  IN Answer("create_book", r.ret[1], book, r, 201)

read_book(book_id) ==
  Answer("read_book", book_id, None, Ret(Db, get_book(Db, book_id)), 200)

update_book_endpoint(book_id, book) ==
  Answer("update_book", book_id, book, update_book(Db, book_id, book), 200)

delete_book_endpoint(book_id) ==
  Answer("delete_book", book_id, None, delete_book(Db, book_id), 200)

create_reading_session(book_id, session) ==
  IF get_book(Db, book_id) = None
  THEN Answer("create_session", book_id, session, Ret(Db, None), 201)
  ELSE Answer("create_session", book_id, session,
              create_session(Db, book_id, session), 201)

get_reading_session(session_id) ==
  Answer("get_session", session_id, None,
         Ret(Db, get_session(Db, session_id)), 200)

end_reading_session(session_id, end_time, now) ==
  Answer("end_session", session_id, end_time,
         end_session(Db, session_id, end_time, now), 200)

update_reading_session(session_id, session_update) ==
  Answer("update_session", session_id, session_update,
         update_session(Db, session_id, session_update), 200)

\* get_reading_session, with the body of its response.
get_reading_session_body(session_id) ==
  /\ get_session(Db, session_id) # None
  /\ exchange' = [op |-> "get_session", id |-> session_id, arg |-> None,
                  code |-> 200, body |-> Session(sessions[session_id])]
  /\ UNCHANGED <<books, sessions, next_book_id, next_session_id, requests>>
  /\ UNCHANGED supVars

\* ------------------------------------------- create-session, step by step
Workers == 1..MaxWorkers

RaceSessionCreate == [start_time : {1}, pages_read : 0..MaxPages]

\* No request: the fields hold placeholders.
NoRequest ==
  [pc |-> "idle", book_id |-> 0, session |-> [start_time |-> 0, pages_read |-> 0],
   book |-> BookDefaults(1), seen |-> 0, session_id |-> 0]

\* Mutant: the page count added by the database, UPDATE ... SET
\* current_page = current_page + n.
Flush_increment(stored, loaded, changed) ==
  [f \in DOMAIN stored |->
     IF f = "current_page"
     THEN stored[f] + (changed[f] - loaded[f])
     ELSE IF changed[f] # loaded[f] THEN changed[f] ELSE stored[f]]

\* The UPDATE of the unit of work: the columns whose attribute differs from
\* the loaded value are set to the attribute, the others are not written.
Flush(stored, loaded, changed) ==
  [f \in DOMAIN stored |->
     IF changed[f] # loaded[f] THEN changed[f] ELSE stored[f]]

\* The request arrives and the endpoint's get_book loads the Book into the
\* db session of the request (404 when there is none).
create_reading_session_load(w, book_id, session) ==
  /\ requests[w].pc \in {"idle", "done"}
  /\ IF get_book(Db, book_id) = None
     THEN /\ requests' = [requests EXCEPT ![w] = NoRequest]
          /\ exchange' = [op |-> "create_session", id |-> book_id,
                          arg |-> session, code |-> 404]
     ELSE /\ requests' = [requests EXCEPT ![w] =
                             [pc |-> "loaded", book_id |-> book_id,
                              session |-> session, book |-> books[book_id],
                              seen |-> next_session_id, session_id |-> 0]]
          /\ UNCHANGED exchange
  /\ UNCHANGED <<books, sessions, next_book_id, next_session_id>>
  /\ UNCHANGED supVars

\* crud create_session on the loaded Book (the second query returns the
\* object already in the db session), then db.commit(). When the book was
\* deleted since the endpoint's check, either the second query finds no row
\* and the None that create_session returns fails the response model, or
\* the INSERT and UPDATE fail at commit: a 500 and nothing written.
create_reading_session_commit(w) ==
  LET r == requests[w]
      id == next_session_id
      row == [book_id |-> r.book_id, start_time |-> r.session.start_time,
              end_time |-> None, pages_read |-> r.session.pages_read]
  IN /\ r.pc = "loaded"
     /\ IF r.book_id \in DOMAIN books
        THEN /\ sessions' = [s \in DOMAIN sessions \cup {id} |->
                               IF s = id THEN row ELSE sessions[s]]
             /\ next_session_id' = id + 1
             /\ books' = [books EXCEPT ![r.book_id] =
                             Flush(@, r.book,
                                   UpdateBookProgress(r.book, r.session))]
             /\ requests' = [requests EXCEPT ![w].pc = "done",
                                              ![w].session_id = id]
             /\ exchange' = [op |-> "create_session", id |-> r.book_id,
                             arg |-> r.session, code |-> 201]
        ELSE /\ requests' = [requests EXCEPT ![w].pc = "done"]
             /\ exchange' = [op |-> "create_session", id |-> r.book_id,
                             arg |-> r.session, code |-> 500]
             /\ UNCHANGED <<books, sessions, next_session_id>>
     /\ UNCHANGED next_book_id
     /\ UNCHANGED supVars

\* ================================================== frontend_manager.py
Pids == 1..MaxDaemons
Cmds == 1..MaxCmds

\* Time that passes while the server child runs, around the edge of the
\* restart window.
Uptimes == {0, 57, 58}

NoDaemon ==
  [pc |-> "none", why |-> "none", sig |-> "none", server |-> "none",
   restart_attempts |-> <<>>, start_time |-> 0]

Idle == [name |-> "none", pc |-> "idle", pid |-> None, polls |-> 0]

Report(name, msg, ret) == [name |-> name, msg |-> msg, ret |-> ret]

read_pid(file) == file

write_pid(pid) == Some(pid)

\* Mutant: the file is left in place.
remove_pid_kept(file) == file

\* remove_pid unlinks the file whatever pid it holds.
remove_pid(file) == None

\* os.kill(pid, 0) of a daemon this manager forked.
Alive(pid) == daemon[pid].pc \notin {"none", "dead"}

is_process_running(pid) == pid # None /\ Alive(pid[1])

\* Mutant: start_daemon without its check.
is_daemon_running_unchecked == FALSE

is_daemon_running == is_process_running(read_pid(pid_file))

\* Mutant: the comparison with MAX_RESTART_ATTEMPTS off by one.
should_restart_one_more(restart_attempts, t, uptime) ==
  LET kept == SelectSeq(restart_attempts, LAMBDA a : t - a < RESTART_WINDOW)
      attempts == Append(kept, t)
  IN [restart_attempts |-> attempts,
      restart |-> ~(Len(attempts) > MAX_RESTART_ATTEMPTS + 1),
      fast_crash |-> /\ ~(Len(attempts) > MAX_RESTART_ATTEMPTS + 1)
                     /\ uptime < MIN_UPTIME]

\* Mutant: an attempt exactly RESTART_WINDOW old still counted.
should_restart_inclusive(restart_attempts, t, uptime) ==
  LET kept == SelectSeq(restart_attempts, LAMBDA a : t - a <= RESTART_WINDOW)
      attempts == Append(kept, t)
  IN [restart_attempts |-> attempts,
      restart |-> ~(Len(attempts) > MAX_RESTART_ATTEMPTS),
      fast_crash |-> /\ ~(Len(attempts) > MAX_RESTART_ATTEMPTS)
                     /\ uptime < MIN_UPTIME]

\* should_restart at time t: the attempts kept, whether to restart, and
\* whether the fast-crash warning is logged.
should_restart(restart_attempts, t, uptime) ==
  LET kept == SelectSeq(restart_attempts, LAMBDA a : t - a < RESTART_WINDOW)
      attempts == Append(kept, t)
  IN [restart_attempts |-> attempts,
      restart |-> ~(Len(attempts) > MAX_RESTART_ATTEMPTS),
      fast_crash |-> /\ ~(Len(attempts) > MAX_RESTART_ATTEMPTS)
                     /\ uptime < MIN_UPTIME]

Finish(c, msg, ret) ==
  /\ outcome' = [outcome EXCEPT ![c] = Report(cmd[c].name, msg, ret)]
  /\ cmd' = [cmd EXCEPT ![c] = Idle]

Step(c, pc) == cmd' = [cmd EXCEPT ![c].pc = pc]

\* The daemon process ends (its memory with it); its server child, started
\* in a session of its own, is not ended with it.
Exit(d, why) ==
  daemon' = [daemon EXCEPT ![d] = [NoDaemon EXCEPT !.pc = "dead", !.why = why,
                                                   !.server = daemon[d].server]]

\* main(): a terminal runs `frontend_manager.py start` or `stop`.
Invoke(c, name) ==
  /\ cmd[c].pc = "idle"
  /\ cmd' = [cmd EXCEPT ![c] = [Idle EXCEPT !.name = name, !.pc = "begin"]]
  /\ outcome' = [outcome EXCEPT ![c] = Report(name, "none", FALSE)]
  /\ UNCHANGED <<pid_file, daemon, next_pid, clock>>

\* ---------------------------------------------------------- start_daemon
StartCheck(c) ==
  /\ cmd[c].name = "start" /\ cmd[c].pc = "begin"
  /\ IF is_daemon_running
     THEN Finish(c, "already running", FALSE)
     ELSE Step(c, "fork") /\ UNCHANGED outcome
  /\ UNCHANGED <<pid_file, daemon, next_pid, clock>>

\* os.fork, setsid, os.fork: the grandchild is the daemon.
StartFork(c) ==
  /\ cmd[c].name = "start" /\ cmd[c].pc = "fork"
  /\ daemon' = [daemon EXCEPT ![next_pid].pc = "forked"]
  /\ next_pid' = next_pid + 1
  /\ Step(c, "wait")
  /\ UNCHANGED <<pid_file, clock, outcome>>

\* The first fork raises OSError.
StartForkFails(c) ==
  /\ cmd[c].name = "start" /\ cmd[c].pc = "fork"
  /\ Finish(c, "fork failed", FALSE)
  /\ UNCHANGED <<pid_file, daemon, next_pid, clock>>

\* The second fork raises OSError: the intermediate child exits 1.
StartSecondForkFails(c) ==
  /\ cmd[c].name = "start" /\ cmd[c].pc = "fork"
  /\ Step(c, "wait")
  /\ UNCHANGED <<pid_file, daemon, next_pid, clock, outcome>>

\* The parent, after its sleep(1).
StartReport(c) ==
  /\ cmd[c].name = "start" /\ cmd[c].pc = "wait"
  /\ IF is_daemon_running
     THEN Finish(c, "started", TRUE)
     ELSE Finish(c, "failed to start", FALSE)
  /\ UNCHANGED <<pid_file, daemon, next_pid, clock>>

\* ------------------------------------------------------------ the daemon
DaemonWritePid(d) ==
  /\ daemon[d].pc = "forked"
  /\ pid_file' = write_pid(d)
  /\ daemon' = [daemon EXCEPT ![d].pc = "written"]
  /\ UNCHANGED <<next_pid, clock, cmd, outcome>>

DaemonInstallHandlers(d) ==
  /\ daemon[d].pc = "written"
  /\ daemon' = [daemon EXCEPT ![d].pc = "launch"]
  /\ UNCHANGED <<pid_file, next_pid, clock, cmd, outcome>>

\* start_frontend_process, then monitor_process takes start_time.
Launch(d) ==
  /\ daemon[d].pc = "launch"
  /\ daemon' = [daemon EXCEPT ![d].pc = "monitor", ![d].server = "running",
                              ![d].start_time = clock]
  /\ UNCHANGED <<pid_file, next_pid, clock, cmd, outcome>>

\* Popen raises: the loop's except breaks, remove_pid, sys.exit.
LaunchFails(d) ==
  /\ daemon[d].pc = "launch"
  /\ Exit(d, "launch failed")
  /\ pid_file' = remove_pid(pid_file)
  /\ UNCHANGED <<next_pid, clock, cmd, outcome>>

\* The server exits after running for `uptime` more seconds: process.wait
\* returns, should_restart decides; on give-up remove_pid and sys.exit.
ChildExit(d, uptime) ==
  /\ daemon[d].pc = "monitor"
  /\ clock + uptime <= MaxClock
  /\ clock' = clock + uptime
  /\ LET r == should_restart(daemon[d].restart_attempts, clock',
                             clock' - daemon[d].start_time)
     IN IF r.restart
        THEN /\ daemon' = [daemon EXCEPT
                             ![d].pc = "sleep", ![d].server = "none",
                             ![d].restart_attempts = r.restart_attempts]
             /\ UNCHANGED pid_file
        ELSE /\ daemon' = [daemon EXCEPT
                             ![d] = [NoDaemon EXCEPT !.pc = "dead",
                                                     !.why = "gave up"]]
             /\ pid_file' = remove_pid(pid_file)
  /\ UNCHANGED <<next_pid, cmd, outcome>>

\* time.sleep(wait_time) returns.
Wake(d) ==
  /\ daemon[d].pc = "sleep"
  /\ clock + RestartSleep <= MaxClock
  /\ clock' = clock + RestartSleep
  /\ daemon' = [daemon EXCEPT ![d].pc = "launch"]
  /\ UNCHANGED <<pid_file, next_pid, cmd, outcome>>

\* handle_sigterm: the children are terminated only if the pid file names a
\* live process and psutil can be imported; remove_pid; sys.exit.
HandleSigterm(d, psutil) ==
  /\ daemon[d].sig = "term"
  /\ daemon[d].pc \in {"launch", "monitor", "sleep"}
  /\ daemon' = [daemon EXCEPT
                  ![d] = [NoDaemon EXCEPT
                            !.pc = "dead", !.why = "sigterm",
                            !.server = IF is_daemon_running /\ psutil
                                       THEN "none" ELSE daemon[d].server]]
  /\ pid_file' = remove_pid(pid_file)
  /\ UNCHANGED <<next_pid, clock, cmd, outcome>>

\* SIGTERM before signal.signal was reached: the default action.
SigtermDefault(d) ==
  /\ daemon[d].sig = "term"
  /\ daemon[d].pc \in {"forked", "written"}
  /\ Exit(d, "sigterm default")
  /\ UNCHANGED <<pid_file, next_pid, clock, cmd, outcome>>

\* SIGKILL takes effect; the server child (start_new_session) lives on.
Killed(d) ==
  /\ daemon[d].sig = "kill"
  /\ Alive(d)
  /\ Exit(d, "killed")
  /\ UNCHANGED <<pid_file, next_pid, clock, cmd, outcome>>

\* The daemon is ended from outside (kill -9, power loss).
Crash(d) ==
  /\ Alive(d)
  /\ daemon[d].pc # "forked"
  /\ Exit(d, "killed")
  /\ UNCHANGED <<pid_file, next_pid, clock, cmd, outcome>>

\* ----------------------------------------------------------- stop_daemon
StopRead(c) ==
  /\ cmd[c].name = "stop" /\ cmd[c].pc = "begin"
  /\ IF read_pid(pid_file) = None
     THEN Finish(c, "not running", FALSE)
     ELSE /\ cmd' = [cmd EXCEPT ![c].pc = "probe", ![c].pid = read_pid(pid_file)]
          /\ UNCHANGED outcome
  /\ UNCHANGED <<pid_file, daemon, next_pid, clock>>

StopProbe(c) ==
  /\ cmd[c].name = "stop" /\ cmd[c].pc = "probe"
  /\ IF ~is_process_running(cmd[c].pid)
     THEN /\ Finish(c, "stale", FALSE)
          /\ pid_file' = remove_pid(pid_file)
     ELSE /\ Step(c, "term")
          /\ UNCHANGED <<pid_file, outcome>>
  /\ UNCHANGED <<daemon, next_pid, clock>>

\* os.kill(pid, sig): ProcessLookupError when the process is gone; a
\* pending SIGKILL stays pending when SIGTERM is sent after it.
Kill(c, sig, pc) ==
  IF ~is_process_running(cmd[c].pid)
  THEN /\ Finish(c, "already stopped", TRUE)
       /\ pid_file' = remove_pid(pid_file)
       /\ UNCHANGED daemon
  ELSE /\ daemon' = [daemon EXCEPT
                       ![cmd[c].pid[1]].sig = IF @ = "kill" THEN @ ELSE sig]
       /\ Step(c, pc)
       /\ UNCHANGED <<pid_file, outcome>>

StopTerm(c) ==
  /\ cmd[c].name = "stop" /\ cmd[c].pc = "term"
  /\ Kill(c, "term", "poll")
  /\ UNCHANGED <<next_pid, clock>>

\* Mutant: the kill sent after the first poll.
PollsExhausted_early(c) == cmd[c].polls >= 1

\* for _ in range(10) has run out.
PollsExhausted(c) == cmd[c].polls = StopPolls

StopPoll(c) ==
  /\ cmd[c].name = "stop" /\ cmd[c].pc = "poll"
  /\ ~PollsExhausted(c)
  /\ IF ~is_process_running(cmd[c].pid)
     THEN /\ Finish(c, "stopped", TRUE)
          /\ pid_file' = remove_pid(pid_file)
     ELSE /\ cmd' = [cmd EXCEPT ![c].polls = @ + 1]
          /\ UNCHANGED <<pid_file, outcome>>
  /\ UNCHANGED <<daemon, next_pid, clock>>

StopKill(c) ==
  /\ cmd[c].name = "stop" /\ cmd[c].pc = "poll"
  /\ PollsExhausted(c)
  /\ Kill(c, "kill", "final")
  /\ UNCHANGED <<next_pid, clock>>

StopFinal(c) ==
  /\ cmd[c].name = "stop" /\ cmd[c].pc = "final"
  /\ IF ~is_process_running(cmd[c].pid)
     THEN /\ Finish(c, "stopped (forced)", TRUE)
          /\ pid_file' = remove_pid(pid_file)
     ELSE /\ Finish(c, "failed to stop", FALSE)
          /\ UNCHANGED pid_file
  /\ UNCHANGED <<daemon, next_pid, clock>>

\* ----------------------------------------------------- the specifications
Init ==
  /\ books = <<>>
  /\ sessions = <<>>
  /\ next_book_id = 1
  /\ next_session_id = 1
  /\ exchange = [op |-> "none", id |-> 0, arg |-> None, code |-> 0]
  /\ requests = [w \in Workers |-> NoRequest]
  /\ pid_file = None
  /\ daemon = [d \in Pids |-> NoDaemon]
  /\ next_pid = 1
  /\ clock = 0
  /\ cmd = [c \in Cmds |-> Idle]
  /\ outcome = [c \in Cmds |-> Report("none", "none", FALSE)]

\* Path ids of Spec: the ids that can be assigned (a request finds nothing
\* before the row is created and after it is deleted).
BookIds == 1..MaxBooks
SessionIds == 1..MaxSessions

Next ==
  \/ \E book \in BookCreate :
        next_book_id <= MaxBooks /\ create_book_endpoint(book)
  \/ \E book_id \in BookIds : read_book(book_id)
  \/ \E book_id \in BookIds, book \in BookUpdate :
        update_book_endpoint(book_id, book)
  \/ \E book_id \in BookIds : delete_book_endpoint(book_id)
  \/ \E book_id \in BookIds, session \in SessionCreate :
        next_session_id <= MaxSessions /\ create_reading_session(book_id, session)
  \/ \E session_id \in SessionIds : get_reading_session(session_id)
  \/ \E session_id \in SessionIds, end_time \in OptTimes, now \in Times :
        end_reading_session(session_id, end_time, now)
  \/ \E session_id \in SessionIds, session_update \in SessionUpdate :
        update_reading_session(session_id, session_update)

Spec == Init /\ [][Next]_vars

\* Path ids of SpecLibrary: those, and one that is never assigned.
LibraryBookIds == 1..(LibraryBooks + 1)
LibrarySessionIds == 1..(LibrarySessions + 1)

NextLibrary ==
  \/ \E book \in LibraryBookCreate :
        next_book_id <= LibraryBooks /\ create_book_endpoint(book)
  \/ \E book_id \in LibraryBookIds : read_book(book_id)
  \/ \E book_id \in LibraryBookIds, book \in LibraryBookUpdate :
        update_book_endpoint(book_id, book)
  \/ \E book_id \in LibraryBookIds : delete_book_endpoint(book_id)
  \/ \E book_id \in LibraryBookIds, session \in LibrarySessionCreate :
        next_session_id <= LibrarySessions
        /\ create_reading_session(book_id, session)
  \/ \E session_id \in LibrarySessionIds : get_reading_session(session_id)
  \/ \E session_id \in LibrarySessionIds :
        end_reading_session(session_id, None, 1)
  \/ \E session_id \in LibrarySessionIds, session_update \in LibrarySessionUpdate :
        update_reading_session(session_id, session_update)

SpecLibrary == Init /\ [][NextLibrary]_vars

NextDerived ==
  \/ \E book \in LibraryBookCreate :
        next_book_id <= MaxBooks /\ create_book_endpoint(book)
  \/ \E start_time \in Seconds :
        /\ next_session_id <= DerivedSessions
        /\ create_reading_session(1, [start_time |-> start_time,
                                      pages_read |-> 1])
  \/ \E session_id \in 1..DerivedSessions, end_time \in Seconds :
        end_reading_session(session_id, Some(end_time), 0)
  \/ \E session_id \in 1..DerivedSessions :
        get_reading_session_body(session_id)

SpecDerived == Init /\ [][NextDerived]_vars

NextRace ==
  \/ \E book \in LibraryBookCreate :
        next_book_id <= MaxBooks /\ create_book_endpoint(book)
  \/ \E w \in Workers, book_id \in BookIds, session \in RaceSessionCreate :
        create_reading_session_load(w, book_id, session)
  \/ \E w \in Workers :
        next_session_id <= RaceSessions /\ create_reading_session_commit(w)

SpecRace == Init /\ [][NextRace]_vars

\* SpecProgress: default books changed by create-session and end-session
\* only.
NextProgress ==
  \/ \E book \in ProgressBookCreate :
        next_book_id <= LibraryBooks /\ create_book_endpoint(book)
  \/ \E book_id \in 1..LibraryBooks, session \in ProgressSessionCreate :
        next_session_id <= LibrarySessions
        /\ create_reading_session(book_id, session)
  \/ \E session_id \in 1..LibrarySessions :
        end_reading_session(session_id, None, MaxTime)

SpecProgress == Init /\ [][NextProgress]_vars

\* SpecDeleteRace: create-session requests and delete-book at the same time.
NextDeleteRace ==
  \/ \E book \in LibraryBookCreate :
        next_book_id <= LibraryBooks /\ create_book_endpoint(book)
  \/ \E book_id \in 1..LibraryBooks : delete_book_endpoint(book_id)
  \/ \E w \in Workers, book_id \in 1..LibraryBooks,
         session \in LibrarySessionCreate :
        create_reading_session_load(w, book_id, session)
  \/ \E w \in Workers :
        next_session_id <= RaceSessions /\ create_reading_session_commit(w)

SpecDeleteRace == Init /\ [][NextDeleteRace]_vars

NextSupervisor ==
  \/ \E c \in Cmds, name \in {"start", "stop"} :
        Invoke(c, name) /\ UNCHANGED apiVars
  \/ \E c \in Cmds : StartCheck(c) /\ UNCHANGED apiVars
  \/ \E c \in Cmds :
        next_pid <= MaxDaemons /\ StartFork(c) /\ UNCHANGED apiVars
  \/ \E c \in Cmds : StartForkFails(c) /\ UNCHANGED apiVars
  \/ \E c \in Cmds : StartSecondForkFails(c) /\ UNCHANGED apiVars
  \/ \E c \in Cmds : StartReport(c) /\ UNCHANGED apiVars
  \/ \E d \in Pids : DaemonWritePid(d) /\ UNCHANGED apiVars
  \/ \E d \in Pids : DaemonInstallHandlers(d) /\ UNCHANGED apiVars
  \/ \E d \in Pids : Launch(d) /\ UNCHANGED apiVars
  \/ \E d \in Pids : LaunchFails(d) /\ UNCHANGED apiVars
  \/ \E d \in Pids, psutil \in BOOLEAN :
        HandleSigterm(d, psutil) /\ UNCHANGED apiVars
  \/ \E d \in Pids : SigtermDefault(d) /\ UNCHANGED apiVars
  \/ \E d \in Pids : Killed(d) /\ UNCHANGED apiVars
  \/ \E d \in Pids : Crash(d) /\ UNCHANGED apiVars
  \/ \E c \in Cmds : StopRead(c) /\ UNCHANGED apiVars
  \/ \E c \in Cmds : StopProbe(c) /\ UNCHANGED apiVars
  \/ \E c \in Cmds : StopTerm(c) /\ UNCHANGED apiVars
  \/ \E c \in Cmds : StopPoll(c) /\ UNCHANGED apiVars
  \/ \E c \in Cmds : StopKill(c) /\ UNCHANGED apiVars
  \/ \E c \in Cmds : StopFinal(c) /\ UNCHANGED apiVars

SpecSupervisor == Init /\ [][NextSupervisor]_vars

NextBreaker ==
  \/ \E c \in Cmds : Invoke(c, "start") /\ UNCHANGED apiVars
  \/ \E c \in Cmds : StartCheck(c) /\ UNCHANGED apiVars
  \/ \E c \in Cmds :
        next_pid <= BreakerDaemons /\ StartFork(c) /\ UNCHANGED apiVars
  \/ \E c \in Cmds : StartReport(c) /\ UNCHANGED apiVars
  \/ \E d \in Pids : DaemonWritePid(d) /\ UNCHANGED apiVars
  \/ \E d \in Pids : DaemonInstallHandlers(d) /\ UNCHANGED apiVars
  \/ \E d \in Pids : Launch(d) /\ UNCHANGED apiVars
  \/ \E d \in Pids : LaunchFails(d) /\ UNCHANGED apiVars
  \/ \E d \in Pids, uptime \in Uptimes :
        ChildExit(d, uptime) /\ UNCHANGED apiVars
  \/ \E d \in Pids : Wake(d) /\ UNCHANGED apiVars

SpecBreaker == Init /\ [][NextBreaker]_vars

\* ================================================================ claims
SessionsOf(s, book_id) == {i \in DOMAIN s : s[i].book_id = book_id}

Created == exchange'.op = "create_session" /\ exchange'.code = 201

\* C1: a successful create-session with pages_read = p on a book with
\* current_page = c leaves current_page = c + p, with no clamping to
\* total_pages.
C1_Accumulates ==
  [][Created =>
       books'[exchange'.id].current_page
         = books[exchange'.id].current_page + exchange'.arg.pages_read]_vars

\* A session was just created and the book's current_page is past total_pages.
C1_Witness ==
  /\ exchange.op = "create_session" /\ exchange.code = 201
  /\ exchange.arg.pages_read > 0
  /\ books[exchange.id].current_page > books[exchange.id].total_pages

\* The first session of a book whose status is want_to_read, as it is after
\* creation with that status.
FirstSessionOfUnread ==
  /\ Created
  /\ books[exchange'.id].status = "want_to_read"
  /\ SessionsOf(sessions, exchange'.id) = {}

StatusAfterFirstSession(b) ==
  IF books'[b].current_page < books'[b].total_pages
  THEN books'[b].status = "reading"
  ELSE books'[b].status = "completed"

\* C2 as stated: the first session of a want_to_read book makes it reading
\* below total_pages and completed from total_pages on, and in the completed
\* case date_started and date_finished both equal the session's start_time.
C2_Original ==
  [][FirstSessionOfUnread =>
       LET b == exchange'.id
       IN /\ StatusAfterFirstSession(b)
          /\ books'[b].status = "completed" =>
               /\ books'[b].date_started = Some(exchange'.arg.start_time)
               /\ books'[b].date_finished = Some(exchange'.arg.start_time)]_vars

\* C2 as amended: the status is as stated; in the completed case each of
\* date_started and date_finished equals the session's start_time when it was
\* unset before the session and keeps its earlier value when it was set.
C2_FirstSession ==
  [][FirstSessionOfUnread =>
       LET b == exchange'.id
           start == Some(exchange'.arg.start_time)
       IN /\ StatusAfterFirstSession(b)
          /\ books'[b].status = "completed" =>
               /\ books'[b].date_started =
                    IF books[b].date_started = None
                    THEN start ELSE books[b].date_started
               /\ books'[b].date_finished =
                    IF books[b].date_finished = None
                    THEN start ELSE books[b].date_finished]_vars

\* The only session of a book completed it, and both dates are its start_time.
C2_Witness ==
  /\ exchange.op = "create_session" /\ exchange.code = 201
  /\ \E s \in DOMAIN sessions :
       /\ SessionsOf(sessions, exchange.id) = {s}
       /\ books[exchange.id].status = "completed"
       /\ books[exchange.id].date_started = Some(sessions[s].start_time)
       /\ books[exchange.id].date_finished = Some(sessions[s].start_time)
       /\ sessions[s].start_time = exchange.arg.start_time

\* An end-session request addressed to a session that is already ended.
EndAgain ==
  /\ exchange'.op = "end_session"
  /\ exchange'.id \in DOMAIN sessions
  /\ sessions[exchange'.id].end_time # None

\* C3: an end-session call on a session that was already ended answers 404.
C3_SecondEndFails == [][EndAgain => exchange'.code = 404]_vars

\* C4: end-session never overwrites an end_time that is set, whatever
\* end_time the call carries; the stored rows stay as they were.
C4_EndTimeKept ==
  [][EndAgain =>
       /\ sessions'[exchange'.id].end_time = sessions[exchange'.id].end_time
       /\ sessions' = sessions
       /\ books' = books]_vars

\* The last request was an end-session carrying an end_time other than the
\* one the session keeps.
C4_Witness ==
  /\ exchange.op = "end_session"
  /\ exchange.id \in DOMAIN sessions
  /\ exchange.arg # None
  /\ sessions[exchange.id].end_time # None
  /\ sessions[exchange.id].end_time # exchange.arg

\* C5: after a successful delete-book no session references the book, a
\* lookup of any of its sessions finds nothing, and the sessions of the other
\* books are as they were.
C5_CascadeDelete ==
  [][(exchange'.op = "delete_book" /\ exchange'.code = 200) =>
       LET b == exchange'.id
       IN /\ SessionsOf(sessions', b) = {}
          /\ \A s \in SessionsOf(sessions, b) :
               get_session([sessions |-> sessions'], s) = None
          /\ \A s \in DOMAIN sessions \ SessionsOf(sessions, b) :
               /\ s \in DOMAIN sessions'
               /\ sessions'[s] = sessions[s]]_vars

\* A book was just deleted; of the three sessions created, the two it had are
\* gone and the other book's one is kept.
C5_Witness ==
  /\ exchange.op = "delete_book" /\ exchange.code = 200
  /\ next_session_id = 4
  /\ Cardinality(DOMAIN sessions) = 1

StoreUnchanged ==
  UNCHANGED <<books, sessions, next_book_id, next_session_id>>

\* C10: a request whose id does not resolve answers 404 and changes nothing
\* (the crud functions return None); after delete-book a get of the id finds
\* nothing.
C10_NotFound ==
  [][LET x == exchange'
     IN /\ (x.op \in {"read_book", "update_book", "delete_book", "create_session"}
            /\ x.id \notin DOMAIN books)
           => x.code = 404 /\ StoreUnchanged
        /\ (x.op \in {"get_session", "update_session"}
            /\ x.id \notin DOMAIN sessions)
           => x.code = 404 /\ StoreUnchanged
        /\ (x.op = "update_book" /\ x.id \notin DOMAIN books)
           => update_book(Db, x.id, x.arg).ret = None
        /\ (x.op = "create_session" /\ x.id \notin DOMAIN books)
           => create_session(Db, x.id, x.arg).ret = None
        /\ (x.op = "update_session" /\ x.id \notin DOMAIN sessions)
           => update_session(Db, x.id, x.arg).ret = None
        /\ (x.op = "delete_book" /\ x.code = 200)
           => get_book([books |-> books'], x.id) = None]_vars

\* A book that was deleted is asked for while another book and a session are
\* stored.
C10_Witness ==
  /\ exchange.op = "read_book" /\ exchange.code = 404
  /\ exchange.id < next_book_id
  /\ books # <<>> /\ sessions # <<>>

\* ------------------------------------------------------------ supervisor
\* Terminal c takes the step of its command `name` that stands at pc.
Takes(c, name, pc) ==
  /\ cmd[c].name = name /\ cmd[c].pc = pc
  /\ cmd'[c] # cmd[c]

Returns(c, msg, ret) ==
  /\ cmd'[c] = Idle
  /\ outcome'[c] = Report(cmd[c].name, msg, ret)

\* The pid file names a process that os.kill(pid, 0) finds.
NamesLive(file) == file # None /\ daemon[file[1]].pc \notin {"none", "dead"}

\* C6: start, when the pid file names a live process, reports already
\* running and returns failure; no process is forked, the pid file is not
\* rewritten and no daemon or server child starts or changes.
C6_StartRefused ==
  [][\A c \in Cmds :
       (Takes(c, "start", "begin") /\ NamesLive(pid_file)) =>
          /\ Returns(c, "already running", FALSE)
          /\ UNCHANGED <<pid_file, daemon, next_pid>>]_vars

\* start was refused while the daemon named by the pid file runs its server.
C6_Witness ==
  \E c \in Cmds :
    /\ outcome[c] = Report("start", "already running", FALSE)
    /\ cmd[c] = Idle
    /\ NamesLive(pid_file)
    /\ daemon[pid_file[1]].server = "running"

\* C7: stop, when no pid file exists, reports not running and changes
\* nothing; stop, when the pid it read is of a process that is not alive,
\* reports stale, returns failure, removes the pid file and signals no
\* process.
C7_StaleStop ==
  [][\A c \in Cmds :
       /\ (Takes(c, "stop", "begin") /\ pid_file = None) =>
             /\ Returns(c, "not running", FALSE)
             /\ UNCHANGED <<pid_file, daemon, next_pid>>
       /\ (Takes(c, "stop", "probe") /\ ~NamesLive(cmd[c].pid)) =>
             /\ Returns(c, "stale", FALSE)
             /\ pid_file' = None
             /\ UNCHANGED <<daemon, next_pid>>]_vars

\* stop found a stale pid file: it is gone, and the dead daemon it named was
\* never signalled by a stop.
C7_Witness ==
  \E c \in Cmds :
    /\ outcome[c] = Report("stop", "stale", FALSE)
    /\ cmd[c] = Idle
    /\ pid_file = None
    /\ \E d \in Pids : daemon[d].pc = "dead" /\ daemon[d].why = "killed"

\* The server of daemon d exits and should_restart is asked.
Exits(d) == daemon[d].pc = "monitor" /\ daemon'[d].pc \in {"sleep", "dead"}

\* The attempts of daemon d inside the window at the exit, this one included.
InWindow(d) ==
  Cardinality({i \in DOMAIN daemon[d].restart_attempts :
                 clock' - daemon[d].restart_attempts[i] < RESTART_WINDOW}) + 1

Restarts(d) == daemon'[d].pc = "sleep"

GivesUp(d) ==
  /\ daemon'[d].pc = "dead" /\ daemon'[d].why = "gave up"
  /\ pid_file' = None

\* The sleep before a relaunch lasts the fixed two seconds.
Backoff ==
  \A d \in Pids :
    (daemon[d].pc = "sleep" /\ daemon'[d].pc = "launch") =>
       clock' = clock + RestartSleep

\* C8 as stated: six attempts inside the window are allowed and the seventh
\* stops the monitoring loop; the sleep before each relaunch is 2 seconds.
C8_Original ==
  [][/\ \A d \in Pids :
          Exits(d) => IF InWindow(d) <= 6 THEN Restarts(d) ELSE GivesUp(d)
     /\ Backoff]_vars

\* C8 as amended: MAX_RESTART_ATTEMPTS (five) attempts inside the window are
\* allowed and the sixth stops the monitoring loop; the sleep before each
\* relaunch is 2 seconds.
C8_CircuitBreaker ==
  [][/\ \A d \in Pids :
          Exits(d) => IF InWindow(d) <= MAX_RESTART_ATTEMPTS
                      THEN Restarts(d) ELSE GivesUp(d)
     /\ Backoff]_vars

\* The loop gave up, after at least one run of the server that lasted.
C8_Witness ==
  \E d \in Pids :
    /\ daemon[d].pc = "dead" /\ daemon[d].why = "gave up"
    /\ clock > MAX_RESTART_ATTEMPTS * RestartSleep

\* C9: SIGTERM is sent by stop after its probe found the process alive and
\* before any SIGKILL; SIGKILL is sent only when ten polls have all found the
\* process alive; from there on stop returns success, with the pid file
\* removed, exactly when its probe finds the process gone, and returns
\* failure with the pid file kept when the process is alive after SIGKILL.
C9_Escalation ==
  [][/\ \A d \in Pids :
          /\ (daemon'[d].sig = "term" /\ daemon[d].sig # "term") =>
                \E c \in Cmds : /\ Takes(c, "stop", "term")
                                /\ cmd[c].pid = Some(d)
                                /\ daemon[d].sig = "none"
          /\ (daemon'[d].sig = "kill" /\ daemon[d].sig # "kill") =>
                \E c \in Cmds : /\ Takes(c, "stop", "poll")
                                /\ cmd[c].pid = Some(d)
                                /\ cmd[c].polls = StopPolls
                                /\ daemon[d].sig = "term"
     /\ \A c \in Cmds :
          (cmd[c].name = "stop" /\ cmd[c].pc \in {"term", "poll", "final"}
           /\ cmd'[c] = Idle) =>
             /\ outcome'[c].ret = ~NamesLive(cmd[c].pid)
             /\ outcome'[c].ret => pid_file' = None
             /\ ~outcome'[c].ret =>
                  /\ cmd[c].pc = "final"
                  /\ outcome'[c].msg = "failed to stop"
                  /\ pid_file' = pid_file]_vars

\* stop had to force the daemon: SIGKILL ended it and the pid file is gone.
C9_Witness ==
  \E c \in Cmds :
    /\ outcome[c] = Report("stop", "stopped (forced)", TRUE)
    /\ cmd[c] = Idle
    /\ pid_file = None
    /\ \E d \in Pids : daemon[d].pc = "dead" /\ daemon[d].why = "killed"

\* ------------------------------------------------------------ API, again
\* Columns that can hold NULL among those the model keeps.
Nullable == {"end_time", "date_started", "date_finished"}

\* Column f of the row holds the supplied value v (null when v = None).
Holds(row, f, v) ==
  IF f \in Nullable THEN row[f] = v ELSE v # None /\ row[f] = v[1]

\* The row after an update: the supplied fields hold what was supplied, the
\* others what they held.
Patched(old, new, update_data) ==
  \A f \in DOMAIN old :
    IF f \in DOMAIN update_data
    THEN Holds(new, f, update_data[f])
    ELSE new[f] = old[f]

\* C11: update-session and update-book of a stored row write exactly the
\* supplied fields, a field supplied as null included, and leave every
\* omitted field as it was.
C11_PartialUpdate ==
  [][LET x == exchange'
     IN /\ (x.op = "update_session" /\ x.id \in DOMAIN sessions) =>
              /\ x.id \in DOMAIN sessions'
              /\ Patched(sessions[x.id], sessions'[x.id], x.arg)
        /\ (x.op = "update_book" /\ x.id \in DOMAIN books) =>
              /\ x.id \in DOMAIN books'
              /\ Patched(books[x.id], books'[x.id], x.arg)]_vars

\* C12: end-session and update-session, an update that changes pages_read
\* included, leave every book as it was: current_page, status, date_started
\* and date_finished of the owning book are not recomputed.
C12_NoBookEffect ==
  [][exchange'.op \in {"end_session", "update_session"} => books' = books]_vars

\* pages_read of a session was just edited down to 0 while its book, which
\* has no other session, still counts the pages and is completed.
C12_Witness ==
  /\ exchange.op = "update_session" /\ exchange.code = 200
  /\ "pages_read" \in DOMAIN exchange.arg
  /\ exchange.id \in DOMAIN sessions
  /\ LET s == sessions[exchange.id]
     IN /\ s.pages_read = 0
        /\ SessionsOf(sessions, s.book_id) = {exchange.id}
        /\ books[s.book_id].current_page = MaxPages
        /\ books[s.book_id].status = "completed"
        /\ books[s.book_id].date_finished = Some(s.start_time)

\* The whole minutes in a span of seconds.
WholeMinutes(seconds) ==
  CHOOSE m \in 0..seconds : m * Minute <= seconds /\ seconds < (m + 1) * Minute

\* C13: in the response for a session is_active is true exactly when
\* end_time is unset; duration_minutes is absent exactly when end_time is
\* unset and is otherwise the number of whole minutes between start_time and
\* end_time (counted back when end_time is the earlier one), 90 for an
\* end_time 90 minutes after start_time.
C13_DerivedFields ==
  (exchange.op = "get_session" /\ exchange.code = 200) =>
     LET r == exchange.body
     IN /\ r.is_active = (r.end_time = None)
        /\ (r.duration_minutes = None) = (r.end_time = None)
        /\ r.end_time # None =>
             LET span == r.end_time[1] - r.start_time
             IN /\ span >= 0 => r.duration_minutes[1] = WholeMinutes(span)
                /\ span < 0 => r.duration_minutes[1] = -WholeMinutes(-span)
                /\ span = 90 * Minute => r.duration_minutes[1] = 90

\* A session ended 90 minutes and one second after its start was read.
C13_Witness ==
  /\ exchange.op = "get_session" /\ exchange.code = 200
  /\ exchange.body.end_time = Some(exchange.body.start_time + 90 * Minute + 1)
  /\ exchange.body.duration_minutes = Some(90)
  /\ ~exchange.body.is_active

\* ------------------------------------------------------ supervisor, again
\* The timestamps of daemon d that are less than RESTART_WINDOW old at the
\* exit, then the time of the exit.
WindowAt(d, t) ==
  Append(SelectSeq(daemon[d].restart_attempts,
                   LAMBDA a : ~(t - a >= RESTART_WINDOW)), t)

\* C14: at each exit of the server should_restart drops the timestamps that
\* are 60 seconds old or older, appends the current time and gives up exactly
\* when more than 5 timestamps are then recorded, whatever the uptime was;
\* a daemon that gave up launches no further server.
C14_DecisionRule ==
  [][\A d \in Pids :
       /\ Exits(d) =>
            LET window == WindowAt(d, clock')
            IN IF Len(window) > 5
               THEN daemon'[d].pc = "dead" /\ daemon'[d].server = "none"
               ELSE /\ daemon'[d].pc = "sleep"
                    /\ daemon'[d].restart_attempts = window
       /\ (daemon[d].pc = "dead" /\ daemon[d].why = "gave up") =>
            daemon'[d] = daemon[d]]_vars

\* The server ran for 58 seconds and exited when the first exit was exactly
\* 60 seconds old: that one is dropped, and the loop goes on.
C14_Witness ==
  \E d \in Pids :
    /\ daemon[d].pc = "sleep"
    /\ daemon[d].restart_attempts = <<RESTART_WINDOW>>
    /\ clock = RESTART_WINDOW
    /\ clock - daemon[d].start_time >= MIN_UPTIME

\* Daemon d ends in this step, for the reason `why`.
Dies(d, why) ==
  /\ daemon[d].pc \notin {"none", "dead"}
  /\ daemon'[d].pc = "dead" /\ daemon'[d].why = why

\* C15: a daemon that ends because SIGTERM reached it, because the breaker
\* gave up or because the server could not be launched has removed the pid
\* file when it ends.
C15_OwnExitRemovesPid ==
  [][\A d \in Pids :
       (\/ Dies(d, "sigterm") \/ Dies(d, "sigterm default")
        \/ Dies(d, "gave up") \/ Dies(d, "launch failed")) =>
          pid_file' = None]_vars

\* Daemon d is in run_monitoring_loop.
InLoop(d) == daemon[d].pc \in {"launch", "monitor", "sleep"}

\* C16: at most one daemon is in the monitoring loop at any time, and the
\* pid file, when present, names the daemon that is.
C16_SingleInstance ==
  /\ Cardinality({d \in Pids : InLoop(d)}) <= 1
  /\ \A d \in Pids : (InLoop(d) /\ pid_file # None) => pid_file = Some(d)

\* ------------------------------------------------------------ API, races
\* Requests v and w on one book are the last two that committed, v first,
\* and each had loaded the book when v came to commit, with no commit of
\* another request since they loaded it.
BothReadFirst(v, w) ==
  /\ v # w
  /\ requests[v].pc = "done" /\ requests[w].pc = "done"
  /\ requests[v].book_id = requests[w].book_id
  /\ requests[v].seen = requests[v].session_id
  /\ requests[w].seen = requests[v].session_id
  /\ requests[w].session_id = requests[v].session_id + 1
  /\ next_session_id = requests[w].session_id + 1

\* C17: when two create-session requests on a book both read current_page =
\* c before either commits, both session rows are persisted and the later
\* commit writes the page count it computed from c: the committed
\* current_page is below c + p1 + p2 when both page counts are positive.
C17_LostUpdate ==
  \A v, w \in Workers :
    BothReadFirst(v, w) =>
      LET c == requests[v].book.current_page
          p1 == requests[v].session.pages_read
          p2 == requests[w].session.pages_read
          b == requests[v].book_id
      IN /\ requests[w].book.current_page = c
         /\ {requests[v].session_id, requests[w].session_id} \subseteq DOMAIN sessions
         /\ books[b].current_page = IF p2 = 0 THEN c + p1 ELSE c + p2
         /\ (p1 > 0 /\ p2 > 0) => books[b].current_page < c + p1 + p2

\* Two requests of one page each, both persisted, and one page counted.
C17_Witness ==
  \E v, w \in Workers :
    /\ BothReadFirst(v, w)
    /\ requests[v].session.pages_read = 1
    /\ requests[w].session.pages_read = 1
    /\ sessions[requests[v].session_id].pages_read = 1
    /\ sessions[requests[w].session_id].pages_read = 1
    /\ books[requests[v].book_id].current_page
         = requests[v].book.current_page + 1

\* C18: a create-session on a book whose date_started is set leaves it as it
\* is, and likewise for date_finished: across create-session operations each
\* date keeps the first value it was given.
C18_DatesKept ==
  [][Created =>
       LET b == exchange'.id
       IN /\ books[b].date_started # None =>
               books'[b].date_started = books[b].date_started
          /\ books[b].date_finished # None =>
               books'[b].date_finished = books[b].date_finished]_vars

\* The second session of a book, later than the first: the book is completed
\* and both dates are still the start_time of the first.
C18_Witness ==
  /\ exchange.op = "create_session" /\ exchange.code = 201
  /\ SessionsOf(sessions, exchange.id) = {1, 2}
  /\ sessions[1].start_time < sessions[2].start_time
  /\ exchange.arg.start_time = sessions[2].start_time
  /\ books[exchange.id].status = "completed"
  /\ books[exchange.id].date_started = Some(sessions[1].start_time)
  /\ books[exchange.id].date_finished = Some(sessions[1].start_time)

\* C19: after a successful create-session, one with pages_read = 0 included,
\* the status of the book is not want_to_read; a completed book stays
\* completed; a reading book stays reading or becomes completed, the latter
\* only with current_page >= total_pages after the accumulation.
C19_StatusForward ==
  [][Created =>
       LET old == books[exchange'.id]
           new == books'[exchange'.id]
       IN /\ new.status # "want_to_read"
          /\ old.status = "completed" => new.status = "completed"
          /\ old.status = "reading" =>
               /\ new.status \in {"reading", "completed"}
               /\ new.status = "completed" =>
                    /\ new.current_page >= new.total_pages
                    /\ new.current_page
                         = old.current_page + exchange'.arg.pages_read]_vars

\* The only session of a book has pages_read = 0 and the book, with no page
\* read, is reading since the start_time of the session.
C19_Witness ==
  /\ exchange.op = "create_session" /\ exchange.code = 201
  /\ exchange.arg.pages_read = 0
  /\ \E s \in DOMAIN sessions :
       /\ SessionsOf(sessions, exchange.id) = {s}
       /\ sessions[s].pages_read = 0
       /\ books[exchange.id].date_started = Some(sessions[s].start_time)
  /\ books[exchange.id].status = "reading"
  /\ books[exchange.id].current_page = 0

\* C20: once the end_time of a session is set, no end-session and no
\* update-session makes it null again, and no end-session assigns another
\* end_time.
C20_StaysEnded ==
  [][LET x == exchange'
     IN (/\ x.op \in {"end_session", "update_session"}
         /\ x.id \in DOMAIN sessions
         /\ sessions[x.id].end_time # None) =>
           /\ x.id \in DOMAIN sessions'
           /\ sessions'[x.id].end_time # None
           /\ x.op = "end_session" =>
                sessions'[x.id].end_time = sessions[x.id].end_time]_vars

\* ---------------------------------------------------------- API, progress
RECURSIVE SumPages(_, _)
\* The sum of pages_read over the sessions ids of table s.
SumPages(s, ids) ==
  IF ids = {} THEN 0
  ELSE LET i == CHOOSE j \in ids : TRUE
       IN s[i].pages_read + SumPages(s, ids \ {i})

\* C21: for books created with the defaults and changed by create-session
\* and end-session only, current_page is the sum of pages_read over the
\* sessions of the book, and the status is completed exactly when
\* current_page >= total_pages.
C21_ProgressInvariant ==
  \A b \in DOMAIN books :
    /\ books[b].current_page = SumPages(sessions, SessionsOf(sessions, b))
    /\ (books[b].status = "completed")
         = (books[b].current_page >= books[b].total_pages)

\* A book with two sessions, one of them ended, read past its total_pages.
C21_Witness ==
  \E b \in DOMAIN books :
    /\ Cardinality(SessionsOf(sessions, b)) = 2
    /\ \A s \in SessionsOf(sessions, b) : sessions[s].pages_read > 0
    /\ \E s \in SessionsOf(sessions, b) : sessions[s].end_time # None
    /\ books[b].current_page > books[b].total_pages
    /\ books[b].status = "completed"

\* --------------------------------------------------- supervisor, servers
\* C22: when stop returns success, by the graceful path or after SIGKILL,
\* the server launched by the daemon it stopped is no longer running.
C22_NoOrphan ==
  [][\A c \in Cmds :
       (/\ cmd[c].name = "stop" /\ cmd[c].pc \in {"term", "poll", "final"}
        /\ cmd'[c] = Idle
        /\ outcome'[c].ret) =>
          daemon'[cmd[c].pid[1]].server # "running"]_vars

\* ------------------------------------------------------ API, delete race
\* C23: a create-session request that went past the existence check of the
\* endpoint ends with a persisted session and 201, or with no session and
\* 404, whatever delete-book did meanwhile.
C23_CreatedOr404 ==
  [][\A w \in Workers :
       (requests[w].pc = "loaded" /\ requests'[w].pc = "done") =>
          \/ /\ exchange'.code = 201
             /\ requests'[w].session_id \in DOMAIN sessions' \ DOMAIN sessions
          \/ /\ exchange'.code = 404
             /\ sessions' = sessions]_vars

====
